---- MODULE Spec2Model ----
(***************************************************************************)
(* Model of the Earley chart parser of earley-parser.py: the Rule / Edge   *)
(* data model, the constructor, predict(), scan(), complete() and the      *)
(* driver loop run().  One parse of one sentence per behaviour.            *)
(*                                                                         *)
(* An edge object is identified by its position in the chart: the deques   *)
(* of predict() and complete() hold references to Edge objects that are    *)
(* all in self.chart, so they are modelled as sequences of chart           *)
(* positions (1-based), and scan()'s in-place mutation is visible through  *)
(* every reference.                                                        *)
(***************************************************************************)
EXTENDS Integers, Sequences, FiniteSets, TLC

\* ------------------------------------------------------------------ bounds
\* longest generated token sequence
MaxLen == 3
\* complete() is not stepped once the chart holds this many edges
MaxChart == 130

\* ------------------------------------------------------------ data model
Rule(lhs, rhs, dot) == [lhs |-> lhs, rhs |-> rhs, dot |-> dot]

Edge(id, rule, span, history) ==
    [id |-> id, rule |-> rule, span |-> span, history |-> history]

\* ------------------------------------------------------------ the inputs
\* The example of the __main__ block.
ExampleSyntax ==
    ("S" :> << <<"NP", "VP">> >>) @@
    ("NP" :> << <<"N", "PP">>, <<"N">> >>) @@
    ("PP" :> << <<"P", "NP">> >>) @@
    ("VP" :> << <<"VP", "PP">>, <<"V", "VP">>, <<"V", "NP">>, <<"V">> >>)

ExampleLexicon ==
    ("N" :> <<"they", "can", "fish", "rivers", "december">>) @@
    ("P" :> <<"in">>) @@
    ("V" :> <<"can", "fish">>)

\* sentence1 and sentence2 of the __main__ block, as token sequences
Sentence1 == <<"they", "can", "fish", "in", "rivers">>
Sentence2 == <<"they", "can", "fish", "in", "rivers", "in", "december">>
\* a sentence with a token ("eat") of no lexical category
SentenceOOV == <<"they", "eat", "fish">>

\* Generated grammars are sets of rules of RuleUniverse (sets of indices).
RuleUniverse ==
    << [lhs |-> "S",  rhs |-> <<"NP", "VP">>],
       [lhs |-> "NP", rhs |-> <<"N">>],
       [lhs |-> "NP", rhs |-> <<"N", "VP">>],
       [lhs |-> "NP", rhs |-> <<"VP">>],
       [lhs |-> "NP", rhs |-> <<"S", "N">>],
       [lhs |-> "NP", rhs |-> << >>],
       [lhs |-> "VP", rhs |-> <<"V">>],
       [lhs |-> "VP", rhs |-> <<"V", "NP">>],
       [lhs |-> "VP", rhs |-> <<"VP", "NP">>],
       [lhs |-> "VP", rhs |-> <<"NP">>],
       [lhs |-> "VP", rhs |-> <<"S">>] >>

\* the table the constructor builds from the rules G: one key per left-hand
\* side, its alternatives in the order given
SyntaxOf(G) ==
    LET idx(A) == SelectSeq([i \in 1..Len(RuleUniverse) |-> i],
                            LAMBDA i : i \in G /\ RuleUniverse[i].lhs = A)
    IN  [A \in {RuleUniverse[i].lhs : i \in G} |->
            [k \in 1..Len(idx(A)) |-> RuleUniverse[idx(A)[k]].rhs]]

Words == {"a", "b"}
PlainLexicon == ("N" :> <<"a", "b">>) @@ ("V" :> <<"b">>)
\* NP is a grammar nonterminal and a lexical category
OverlapLexicon == PlainLexicon @@ ("NP" :> <<"a">>)

\* Four families, each the base rules plus any subset of the optional ones:
\* ambiguity, left recursion and an empty alternative; unit rules, with the
\* cycle NP -> VP -> NP; S on a right-hand side, with or without a key S in
\* the table; a symbol that is both a nonterminal and a lexical category.
Families ==
    { [base |-> {2, 7, 8}, optional |-> {1, 3, 6, 9}, lexicon |-> PlainLexicon],
      [base |-> {2, 7},    optional |-> {1, 4, 10},   lexicon |-> PlainLexicon],
      [base |-> {2, 7},    optional |-> {1, 5, 11},   lexicon |-> PlainLexicon],
      [base |-> {2, 7, 8}, optional |-> {1, 3, 6},    lexicon |-> OverlapLexicon] }

GeneratedSentences == UNION {[1..n -> Words] : n \in 0..MaxLen}

Inputs ==
    {[syntax |-> ExampleSyntax, lexicon |-> ExampleLexicon, sentence |-> s] :
        s \in {Sentence1, Sentence2, SentenceOOV}}
    \cup
    UNION {
        {[syntax |-> SyntaxOf(f.base \cup o), lexicon |-> f.lexicon,
          sentence |-> s] :
            o \in SUBSET f.optional, s \in GeneratedSentences} :
        f \in Families }

\* ------------------------------------------------------------- the state
VARIABLES
    syntax,             \* self.syntax
    lexicon,            \* self.lexicon (a defaultdict: a lookup may add a key)
    sentence,           \* self.sentence, the tokens
    edge_id,            \* self.edge_id, the next id of count()
    sentence_progress,  \* self.sentence_progress
    chart,              \* self.chart
    complete_start,     \* self.complete_start
    parse_count,        \* self.parse_count
    pc,                 \* position in run(): "run", "predict", "scan",
                        \* "complete", "done"
    edge_queue,         \* predict's edge_queue (chart positions)
    seen,               \* predict's seen
    completed_edges,    \* scanned_edges / complete's worklist (positions)
    iterations          \* number of times the body of run's loop was entered

vars == <<syntax, lexicon, sentence, edge_id, sentence_progress, chart,
          complete_start, parse_count, pc, edge_queue, seen, completed_edges,
          iterations>>

\* EarleyParser.__init__
NewParser(in) ==
    [syntax |-> in.syntax,
     lexicon |-> in.lexicon,
     sentence |-> in.sentence,
     edge_id |-> 1,
     sentence_progress |-> 0,
     chart |-> << Edge(0, Rule("S", <<"NP", "VP">>, 0), <<0, 0>>, << >>) >>,
     complete_start |-> 0,
     parse_count |-> 0,
     pc |-> "run",
     edge_queue |-> << >>,
     seen |-> {},
     completed_edges |-> << >>,
     iterations |-> 0]

\* the current state as one record, and its installation as the next state
Cur ==
    [syntax |-> syntax, lexicon |-> lexicon, sentence |-> sentence,
     edge_id |-> edge_id, sentence_progress |-> sentence_progress,
     chart |-> chart, complete_start |-> complete_start,
     parse_count |-> parse_count, pc |-> pc, edge_queue |-> edge_queue,
     seen |-> seen, completed_edges |-> completed_edges,
     iterations |-> iterations]

Becomes(st) ==
    /\ syntax' = st.syntax
    /\ lexicon' = st.lexicon
    /\ sentence' = st.sentence
    /\ edge_id' = st.edge_id
    /\ sentence_progress' = st.sentence_progress
    /\ chart' = st.chart
    /\ complete_start' = st.complete_start
    /\ parse_count' = st.parse_count
    /\ pc' = st.pc
    /\ edge_queue' = st.edge_queue
    /\ seen' = st.seen
    /\ completed_edges' = st.completed_edges
    /\ iterations' = st.iterations

\* positions lo+1 .. hi of the chart, in order: chart[lo:] as references
Positions(lo, hi) == [k \in 1..(IF hi > lo THEN hi - lo ELSE 0) |-> lo + k]

\* ---------------------------------------------------------------- predict
\* FirstUnseen that does not consult seen: only repetitions inside the list
\* alts are dropped
FirstUnseenIgnoringSeen(alts, seen_keys, isWord, new_lhs) ==
    LET act(n) == \A m \in 1..(n - 1) : alts[m] # alts[n]
        idx == SelectSeq([n \in 1..Len(alts) |-> n], act)
    IN  [k \in 1..Len(idx) |-> alts[idx[k]]]

\* the elements of the list alts that a loop "if (new_lhs, x) not in seen:
\* ...; seen.add((new_lhs, x))" over alts acts on, in order: those whose key
\* is not in seen and that did not occur earlier in the list
FirstUnseen(alts, seen_keys, isWord, new_lhs) ==
    LET act(n) == /\ <<new_lhs, alts[n], isWord>> \notin seen_keys
                  /\ \A m \in 1..(n - 1) : alts[m] # alts[n]
        idx == SelectSeq([n \in 1..Len(alts) |-> n], act)
    IN  [k \in 1..Len(idx) |-> alts[idx[k]]]

\* "for new_rhs in self.syntax[new_lhs]": one predicted edge B -> . rhs per
\* alternative not yet seen, appended to the chart and to the queue
PredictSyntax(st, edge, new_lhs) ==
    LET fresh == FirstUnseen(st.syntax[new_lhs], st.seen, FALSE, new_lhs)
        new_edges == [k \in 1..Len(fresh) |->
                         Edge(st.edge_id + k - 1, Rule(new_lhs, fresh[k], 0),
                              <<edge.span[2], edge.span[2]>>, << >>)]
    IN  [st EXCEPT
            !.edge_id = @ + Len(fresh),
            !.edge_queue = @ \o Positions(Len(st.chart),
                                          Len(st.chart) + Len(fresh)),
            !.chart = @ \o new_edges,
            !.seen = @ \cup {<<new_lhs, fresh[k], FALSE>> : k \in 1..Len(fresh)}]

\* self.lexicon[new_lhs] on a defaultdict(list): a missing key is inserted
\* with an empty list
LexiconLookup(st, new_lhs) ==
    IF new_lhs \in DOMAIN st.lexicon THEN st
    ELSE [st EXCEPT !.lexicon = @ @@ (new_lhs :> << >>)]

\* PredictLexicon without the lookahead at the next token: one lexical edge
\* per word of the category
PredictLexiconNoLookahead(st, edge, new_lhs) ==
    LET fresh == FirstUnseen(st.lexicon[new_lhs], st.seen, TRUE, new_lhs)
        new_edges == [k \in 1..Len(fresh) |->
                         Edge(st.edge_id + k - 1,
                              Rule(new_lhs, <<fresh[k]>>, 0),
                              <<edge.span[2], edge.span[2]>>, << >>)]
    IN  [st EXCEPT
            !.edge_id = @ + Len(fresh),
            !.chart = @ \o new_edges,
            !.seen = @ \cup {<<new_lhs, fresh[k], TRUE>> : k \in 1..Len(fresh)}]

\* "for new_word in self.lexicon[new_lhs]": one lexical edge B -> . w per
\* word w that is the next token and not yet seen, appended to the chart
\* only; seen holds (new_lhs, new_word) with a str where the other branch
\* holds a tuple, hence the third component of the keys
PredictLexicon(st, edge, new_lhs) ==
    LET words == SelectSeq(st.lexicon[new_lhs],
                           LAMBDA w : w = st.sentence[st.sentence_progress + 1])
        fresh == FirstUnseen(words, st.seen, TRUE, new_lhs)
        new_edges == [k \in 1..Len(fresh) |->
                         Edge(st.edge_id + k - 1,
                              Rule(new_lhs, <<fresh[k]>>, 0),
                              <<edge.span[2], edge.span[2]>>, << >>)]
    IN  [st EXCEPT
            !.edge_id = @ + Len(fresh),
            !.chart = @ \o new_edges,
            !.seen = @ \cup {<<new_lhs, fresh[k], TRUE>> : k \in 1..Len(fresh)}]

\* one iteration of "while edge_queue"
PredictStep(st) ==
    LET edge == st.chart[Head(st.edge_queue)]
        st1 == [st EXCEPT !.edge_queue = Tail(@)]
    IN  IF edge.rule.dot >= Len(edge.rule.rhs) THEN st1
        ELSE LET new_lhs == edge.rule.rhs[edge.rule.dot + 1] IN
             IF new_lhs \in DOMAIN st.syntax
             THEN PredictSyntax(st1, edge, new_lhs)
             ELSE PredictLexicon(LexiconLookup(st1, new_lhs), edge, new_lhs)

\* ------------------------------------------------------------------- scan
ScanEdge(st, p) ==
    /\ p > st.complete_start
    /\ st.chart[p].rule.lhs \in DOMAIN st.lexicon

\* Scan over the whole chart instead of chart[complete_start:]
ScanWholeChart(st) ==
    LET any(p) == st.chart[p].rule.lhs \in DOMAIN st.lexicon IN
    [st EXCEPT
        !.chart = [p \in 1..Len(st.chart) |->
                      IF any(p)
                      THEN [st.chart[p] EXCEPT
                               !.rule.dot = @ + 1,
                               !.span = <<@[1], @[2] + 1>>]
                      ELSE st.chart[p]],
        !.completed_edges = SelectSeq(Positions(0, Len(st.chart)), any),
        !.sentence_progress = @ + 1,
        !.complete_start = Len(st.chart),
        !.pc = "complete"]

\* Scan that advances the token counter by two
ScanSkipsToken(st) ==
    [st EXCEPT
        !.chart = [p \in 1..Len(st.chart) |->
                      IF ScanEdge(st, p)
                      THEN [st.chart[p] EXCEPT
                               !.rule.dot = @ + 1,
                               !.span = <<@[1], @[2] + 1>>]
                      ELSE st.chart[p]],
        !.completed_edges = SelectSeq(Positions(0, Len(st.chart)),
                                      LAMBDA p : ScanEdge(st, p)),
        !.sentence_progress = @ + 2,
        !.complete_start = Len(st.chart),
        !.pc = "complete"]

\* scan(): every edge of chart[complete_start:] whose lhs is a lexicon key is
\* advanced in place and returned; one token is consumed
Scan(st) ==
    [st EXCEPT
        !.chart = [p \in 1..Len(st.chart) |->
                      IF ScanEdge(st, p)
                      THEN [st.chart[p] EXCEPT
                               !.rule.dot = @ + 1,
                               !.span = <<@[1], @[2] + 1>>]
                      ELSE st.chart[p]],
        !.completed_edges = SelectSeq(Positions(0, Len(st.chart)),
                                      LAMBDA p : ScanEdge(st, p)),
        !.sentence_progress = @ + 1,
        !.complete_start = Len(st.chart),
        !.pc = "complete"]

\* --------------------------------------------------------------- complete
\* the condition under which complete() merges pending_edge and
\* completed_edge
Matches(pending_edge, completed_edge) ==
    /\ pending_edge.rule.dot < Len(pending_edge.rule.rhs)
    /\ pending_edge.span[2] = completed_edge.span[1]
    /\ pending_edge.rule.rhs[pending_edge.rule.dot + 1] = completed_edge.rule.lhs

\* Merge with the end of the span computed from both ends
MergeAddsEnds(id, pending_edge, completed_edge) ==
    Edge(id,
         Rule(pending_edge.rule.lhs, pending_edge.rule.rhs,
              pending_edge.rule.dot + 1),
         <<pending_edge.span[1], pending_edge.span[2] + completed_edge.span[2]>>,
         Append(pending_edge.history, completed_edge.id))

\* Merge that does not record the completed edge
MergeKeepsHistory(id, pending_edge, completed_edge) ==
    Edge(id,
         Rule(pending_edge.rule.lhs, pending_edge.rule.rhs,
              pending_edge.rule.dot + 1),
         <<pending_edge.span[1], completed_edge.span[2]>>,
         pending_edge.history)

\* Merge that records the id of the new edge instead of the completed one
MergeRecordsOwnId(id, pending_edge, completed_edge) ==
    Edge(id,
         Rule(pending_edge.rule.lhs, pending_edge.rule.rhs,
              pending_edge.rule.dot + 1),
         <<pending_edge.span[1], completed_edge.span[2]>>,
         Append(pending_edge.history, id))

\* the edge complete() constructs by merging a pending and a complete edge
Merge(id, pending_edge, completed_edge) ==
    Edge(id,
         Rule(pending_edge.rule.lhs, pending_edge.rule.rhs,
              pending_edge.rule.dot + 1),
         <<pending_edge.span[1], completed_edge.span[2]>>,
         Append(pending_edge.history, completed_edge.id))

\* CountsAsParse without the test that all tokens are consumed
CountsAsParseAtAnyStage(st, new_edge) ==
    new_edge.rule.lhs = "S"

\* CountsAsParse of a recogniser: only the first parse is counted
CountsAsParseOnce(st, new_edge) ==
    /\ new_edge.rule.lhs = "S"
    /\ st.sentence_progress = Len(st.sentence)
    /\ st.parse_count = 0

\* a new complete edge is counted as a parse instead of being queued
CountsAsParse(st, new_edge) ==
    /\ new_edge.rule.lhs = "S"
    /\ st.sentence_progress = Len(st.sentence)

\* "for pending_edge in self.chart", from position lo on.  The list grows
\* while it is iterated, so the edges the loop appends are visited too, after
\* the ones that were there: the matching edges among lo .. len(chart) are
\* merged in order, then the loop goes on over the edges just appended.
RECURSIVE CompleteScan(_, _, _)
CompleteScan(st, completed_edge, lo) ==
    LET pending == SelectSeq(Positions(lo - 1, Len(st.chart)),
                             LAMBDA p : Matches(st.chart[p], completed_edge))
        new_edges == [k \in 1..Len(pending) |->
                         Merge(st.edge_id + k - 1, st.chart[pending[k]],
                               completed_edge)]
        is_complete(k) == new_edges[k].rule.dot = Len(new_edges[k].rule.rhs)
        counted == {k \in 1..Len(pending) :
                       is_complete(k) /\ CountsAsParse(st, new_edges[k])}
        queued == SelectSeq([k \in 1..Len(pending) |-> k],
                            LAMBDA k : is_complete(k) /\ k \notin counted)
    IN  IF pending = << >> THEN st
        ELSE CompleteScan(
                 [st EXCEPT
                     !.edge_id = @ + Len(pending),
                     !.chart = @ \o new_edges,
                     !.parse_count = @ + Cardinality(counted),
                     !.completed_edges =
                         @ \o [n \in 1..Len(queued) |-> Len(st.chart) + queued[n]]],
                 completed_edge, Len(st.chart) + 1)

\* one iteration of "while completed_edges"
CompleteStep(st) ==
    CompleteScan([st EXCEPT !.completed_edges = Tail(@)],
                 st.chart[Head(st.completed_edges)], 1)

\* ---------------------------------------------------------------- actions
Init ==
    \E in \in Inputs :
        LET st == NewParser(in) IN
        /\ syntax = st.syntax
        /\ lexicon = st.lexicon
        /\ sentence = st.sentence
        /\ edge_id = st.edge_id
        /\ sentence_progress = st.sentence_progress
        /\ chart = st.chart
        /\ complete_start = st.complete_start
        /\ parse_count = st.parse_count
        /\ pc = st.pc
        /\ edge_queue = st.edge_queue
        /\ seen = st.seen
        /\ completed_edges = st.completed_edges
        /\ iterations = st.iterations

\* run(): the loop test holds; predict() is entered and builds its queue
EnterLoop(st) ==
    [st EXCEPT !.pc = "predict",
               !.iterations = @ + 1,
               !.edge_queue = Positions(st.complete_start, Len(st.chart)),
               !.seen = {}]

RunLoop ==
    /\ pc = "run"
    /\ sentence_progress < Len(sentence)
    /\ \E next \in {EnterLoop(Cur)} : Becomes(next)

\* run(): the loop test fails; the chart and the count are printed
RunExit ==
    /\ pc = "run"
    /\ ~(sentence_progress < Len(sentence))
    /\ \E next \in {[Cur EXCEPT !.pc = "done"]} : Becomes(next)

Predict ==
    /\ pc = "predict"
    /\ edge_queue # << >>
    /\ \E next \in {PredictStep(Cur)} : Becomes(next)

PredictReturn ==
    /\ pc = "predict"
    /\ edge_queue = << >>
    /\ \E next \in {[Cur EXCEPT !.pc = "scan"]} : Becomes(next)

ScanCall ==
    /\ pc = "scan"
    /\ \E next \in {Scan(Cur)} : Becomes(next)

Complete ==
    /\ pc = "complete"
    /\ completed_edges # << >>
    /\ Len(chart) < MaxChart
    /\ \E next \in {CompleteStep(Cur)} : Becomes(next)

CompleteReturn ==
    /\ pc = "complete"
    /\ completed_edges = << >>
    /\ \E next \in {[Cur EXCEPT !.pc = "run"]} : Becomes(next)

Next ==
    \/ RunLoop
    \/ RunExit
    \/ Predict
    \/ PredictReturn
    \/ ScanCall
    \/ Complete
    \/ CompleteReturn

Spec == Init /\ [][Next]_vars

\* run() is one uninterrupted call: a step that can be taken is taken
FairSpec == Spec /\ WF_vars(Next)

Done == pc = "done"

\* predict(), complete() and run() as functions of the parser's state: the
\* steps above, each loop run to its end
RECURSIVE PredictLoop(_)
PredictLoop(st) ==
    IF st.edge_queue # << >> THEN PredictLoop(PredictStep(st))
    ELSE [st EXCEPT !.pc = "scan"]

RECURSIVE CompleteLoop(_)
CompleteLoop(st) ==
    IF st.completed_edges # << >> THEN CompleteLoop(CompleteStep(st))
    ELSE [st EXCEPT !.pc = "run"]

RECURSIVE Run(_)
Run(st) ==
    IF st.sentence_progress < Len(st.sentence)
    THEN Run(CompleteLoop(Scan(PredictLoop(EnterLoop(st)))))
    ELSE [st EXCEPT !.pc = "done"]

\* ------------------------------------------------- properties of the input
\* no alternative of the grammar has an empty right-hand side
EpsilonFree ==
    \A A \in DOMAIN syntax :
        \A n \in 1..Len(syntax[A]) : Len(syntax[A][n]) > 0

\* the nonterminals a unit alternative A -> B leads to
UnitSuccessors(A) ==
    {syntax[A][n][1] : n \in {m \in 1..Len(syntax[A]) : Len(syntax[A][m]) = 1}}
        \cap DOMAIN syntax

RECURSIVE UnitReach(_, _)
UnitReach(T, n) ==
    IF n = 0 THEN T
    ELSE UnitReach(T \cup UNION {UnitSuccessors(B) : B \in T}, n - 1)

\* no nonterminal derives itself through unit alternatives only
UnitCycleFree ==
    \A A \in DOMAIN syntax :
        A \notin UnitReach(UnitSuccessors(A), Cardinality(DOMAIN syntax))

IsExample == syntax = ExampleSyntax

\* the number of derivation trees, counted from the grammar and the lexicon
\* alone: Trees(A, i, j) of symbol A over the tokens i+1 .. j, and
\* SeqTrees(rhs, p, i, j) of the symbols rhs[p..] over the same tokens.  Every
\* symbol of an epsilon-free grammar covers at least one token.
RECURSIVE Trees(_, _, _), SeqTrees(_, _, _, _), SumAlts(_, _, _, _),
          SumSplits(_, _, _, _, _)
Trees(A, i, j) ==
    IF i >= j THEN 0
    ELSE (IF A \in DOMAIN syntax THEN SumAlts(A, 1, i, j) ELSE 0)
         + (IF /\ A \in DOMAIN lexicon
               /\ j = i + 1
               /\ \E w \in 1..Len(lexicon[A]) : lexicon[A][w] = sentence[j]
            THEN 1 ELSE 0)

SumAlts(A, n, i, j) ==
    IF n > Len(syntax[A]) THEN 0
    ELSE SeqTrees(syntax[A][n], 1, i, j) + SumAlts(A, n + 1, i, j)

SeqTrees(rhs, p, i, j) ==
    IF p > Len(rhs) THEN (IF i = j THEN 1 ELSE 0)
    ELSE IF p = Len(rhs) THEN Trees(rhs[p], i, j)
    ELSE SumSplits(rhs, p, i, i + 1, j)

SumSplits(rhs, p, i, k, j) ==
    IF k >= j THEN 0
    ELSE LET left == Trees(rhs[p], i, k) IN
         (IF left = 0 THEN 0 ELSE left * SeqTrees(rhs, p + 1, k, j))
         + SumSplits(rhs, p, i, k + 1, j)

\* the derivation trees of the whole sentence from the start rule S -> NP VP
Derivations == SeqTrees(<<"NP", "VP">>, 1, 0, Len(sentence))

\* ------------------------------------------------------------- the claims

\* C1: when run() finishes on an epsilon-free grammar, parse_count is the
\* number of distinct derivation trees of the whole token sequence from the
\* start rule S -> NP VP (finite when no nonterminal derives itself through
\* unit rules).
C1_CountsDerivations ==
    (Done /\ EpsilonFree /\ UnitCycleFree) => parse_count = Derivations

\* C2: with the example grammar and lexicon and the sentence "They can fish in
\* rivers", run() ends with parse_count = 2.
C2_ExampleCountIsTwo ==
    (Done /\ IsExample /\ sentence = Sentence1) => parse_count = 2

\* C2, amended: with the example grammar and lexicon and the sentence "They
\* can fish in rivers", run() ends with parse_count = 4.
C2_ExampleCountIsFour ==
    (Done /\ IsExample /\ sentence = Sentence1) => parse_count = 4

C2_Witness ==
    /\ Done /\ IsExample /\ sentence = Sentence1
    /\ parse_count = Derivations

\* the final parse_count of a fresh parser of the example on a sentence
ExampleCount(s) ==
    Run(NewParser([syntax |-> ExampleSyntax, lexicon |-> ExampleLexicon,
                   sentence |-> s])).parse_count

\* C3: with the example grammar and lexicon, the final parse_count for "They
\* can fish in rivers in December" is strictly larger than the final
\* parse_count for "They can fish in rivers".
C3_TwoPPsCountMore ==
    (Done /\ IsExample /\ sentence = Sentence2)
        => parse_count > ExampleCount(Sentence1)

C3_Witness ==
    /\ Done /\ IsExample /\ sentence = Sentence2
    /\ parse_count > 0

\* the span and dot invariants of the data model
SpanValid(e) ==
    /\ 0 <= e.span[1]
    /\ e.span[1] <= e.span[2]
    /\ e.span[2] <= Len(sentence)

DotValid(e) == 0 <= e.rule.dot /\ e.rule.dot <= Len(e.rule.rhs)

\* predict created no lexical edge for token k+1 (position k): the token is
\* no word of any category expected there
NoLexicalEdgeAt(k) ==
    ~ \E p \in 1..Len(chart) :
        /\ chart[p].rule.rhs = <<sentence[k + 1]>>
        /\ chart[p].span[1] = k

UnmatchedToken == \E k \in 0..(Len(sentence) - 1) : NoLexicalEdgeAt(k)

\* C4: if some token matches no lexicon word of any category expected at its
\* position, run() still reaches its end: every token is consumed, the final
\* parse_count is 0, and every edge of the final chart satisfies the span and
\* dot invariants.
C4_UnmatchedTokenYieldsZero ==
    (Done /\ UnmatchedToken) =>
        /\ sentence_progress = Len(sentence)
        /\ iterations = Len(sentence)
        /\ parse_count = 0
        /\ \A p \in 1..Len(chart) : SpanValid(chart[p]) /\ DotValid(chart[p])

C4_Witness ==
    /\ Done /\ IsExample /\ sentence = SentenceOOV
    /\ UnmatchedToken
    /\ Len(chart) > 1

\* C6: in every reachable state every edge of the chart has a span
\* (start, end) with 0 <= start <= end <= token_count.
C6_SpanInvariant == \A p \in 1..Len(chart) : SpanValid(chart[p])

C6_Witness ==
    \E p \in 1..Len(chart) :
        /\ chart[p].span[1] > 0
        /\ chart[p].span[1] < chart[p].span[2]
        /\ chart[p].span[2] = Len(sentence)
        /\ chart[p].history # << >>

\* C8: in every reachable state every edge's rule satisfies
\* 0 <= dot <= len(rhs), for any grammar and lexicon (also when a symbol is
\* both a grammar nonterminal and a lexical category).
C8_DotInvariant == \A p \in 1..Len(chart) : DotValid(chart[p])

\* C9: in every reachable state the length of every edge's history equals
\* its dot position (lexical edges advanced by scan included).
C9_HistoryLengthIsDot ==
    \A p \in 1..Len(chart) : Len(chart[p].history) = chart[p].rule.dot

\* C9, amended: the length of the history equals the dot for every edge whose
\* left-hand side is not a key of the lexicon table, and never exceeds the dot
\* for the others: scan advances the dot of an edge whose left-hand side is a
\* lexical category and adds nothing to its history.
C9_HistoryLengthOfUnscanned ==
    \A p \in 1..Len(chart) :
        /\ Len(chart[p].history) <= chart[p].rule.dot
        /\ chart[p].rule.lhs \notin DOMAIN lexicon
               => Len(chart[p].history) = chart[p].rule.dot

C9_Witness ==
    /\ \E p \in 1..Len(chart) :
           /\ chart[p].rule.lhs \in DOMAIN lexicon
           /\ chart[p].rule.dot = 1
           /\ chart[p].history = << >>
    /\ \E p \in 1..Len(chart) :
           /\ chart[p].rule.lhs \notin DOMAIN lexicon
           /\ chart[p].rule.dot = 2
           /\ Len(chart[p].history) = 2

\* run() has returned after exactly token_count iterations of its loop, every
\* call of predict and of complete having emptied its worklist
Terminated ==
    /\ Done
    /\ iterations = Len(sentence)
    /\ edge_queue = << >>
    /\ completed_edges = << >>

EdgeOfId(ch, id) == ch[CHOOSE q \in 1..Len(ch) : ch[q].id = id]

\* C7: every id in an edge's history belongs to an edge created strictly
\* earlier (smaller id) that was complete (dot = len(rhs)) at the moment the
\* referencing edge was appended.
C7_HistoryRefsCompleteEarlier ==
    [][\A p \in (Len(chart) + 1)..Len(chart') :
          \A n \in 1..Len(chart'[p].history) :
              LET h == chart'[p].history[n] IN
              /\ h < chart'[p].id
              /\ \E q \in 1..Len(chart) : chart[q].id = h
              /\ EdgeOfId(chart, h).rule.dot = Len(EdgeOfId(chart, h).rule.rhs)
      ]_vars

\* the complete S edges that span the whole input
WholeParses ==
    {p \in 1..Len(chart) :
        /\ chart[p].rule.lhs = "S"
        /\ chart[p].rule.dot = Len(chart[p].rule.rhs)
        /\ chart[p].span = <<0, Len(sentence)>>}

\* C10: complete() counts a new complete edge only if its lhs is S, its span
\* is (0, token_count) and all tokens are consumed; so parse_count stays 0
\* while tokens remain, and the final parse_count is the number of complete S
\* edges with span (0, token_count) in the final chart.
C10_CountsWholeSpanS ==
    /\ sentence_progress < Len(sentence) => parse_count = 0
    /\ Done => parse_count = Cardinality(WholeParses)

\* the edges made by the call of predict() in progress (pc = "predict") or
\* just returned (pc = "scan"): predict gives its edges an empty history and
\* complete never does, so they are the edges with an empty history after
\* complete_start, the initial edge of the constructor excepted
PredictedNow ==
    {p \in 1..Len(chart) :
        p > 1 /\ p > complete_start /\ chart[p].history = << >>}

\* C11: within a single predict() call no two edges are created with the
\* same (lhs, rhs-alternative) pair at the same span, even when several
\* worklist edges (left-recursive or mutually recursive ones included) expect
\* the same symbol.
C11_PredictNoDuplicates ==
    pc \in {"predict", "scan"} =>
        \A p, q \in PredictedNow :
            (/\ chart[p].rule.lhs = chart[q].rule.lhs
             /\ chart[p].rule.rhs = chart[q].rule.rhs
             /\ chart[p].span = chart[q].span) => p = q

\* predict has returned; a left-recursive edge p was predicted and popped,
\* so its symbol was expected twice in the call: by p and by another edge q
\* of the worklist
C11_Witness ==
    /\ pc = "scan"
    /\ \E p \in PredictedNow :
           /\ Len(chart[p].rule.rhs) > 0
           /\ chart[p].rule.rhs[1] = chart[p].rule.lhs
           /\ \E q \in 1..Len(chart) :
                  /\ q > complete_start /\ q # p
                  /\ chart[q].rule.dot < Len(chart[q].rule.rhs)
                  /\ chart[q].rule.rhs[chart[q].rule.dot + 1] = chart[p].rule.lhs

\* the symbol after the dot of the edge predict() pops next
NextSymbolKnown ==
    LET edge == chart[Head(edge_queue)] IN
    \/ edge.rule.dot >= Len(edge.rule.rhs)
    \/ edge.rule.rhs[edge.rule.dot + 1] \in DOMAIN syntax \cup DOMAIN lexicon

\* C12: when predict() meets a symbol after the dot that is a key of neither
\* the grammar table nor the lexicon table, it creates no edge and raises no
\* error, and both tables (key sets and alternatives) are the same after the
\* call as before it; no step of a parse modifies the tables.
C12_TablesNeverModified ==
    [][/\ syntax' = syntax
       /\ lexicon' = lexicon
       /\ (pc = "predict" /\ edge_queue # << >> /\ ~NextSymbolKnown)
              => (chart' = chart /\ pc' = "predict")
      ]_vars

\* a lexical edge as predict() makes it: B -> . w with w a word of B
IsLexicalEdge(e) ==
    /\ Len(e.rule.rhs) = 1
    /\ e.rule.dot = 0
    /\ e.history = << >>
    /\ e.rule.lhs \in DOMAIN lexicon
    /\ \E n \in 1..Len(lexicon[e.rule.lhs]) :
           lexicon[e.rule.lhs][n] = e.rule.rhs[1]

\* C13: the chart is append-only and edges are otherwise immutable: no step
\* removes or reorders an edge, and the only edges whose rule, span or
\* history change after creation are lexical edges created by predict in the
\* current stage (single-terminal rhs, dot = 0), each changed by exactly one
\* scan (dot 0 -> 1, span.end + 1) and never again; predict and complete
\* modify no existing edge.
C13_OnlyLexicalEdgesChange ==
    [][/\ Len(chart') >= Len(chart)
       /\ \A p \in 1..Len(chart) :
              \/ chart'[p] = chart[p]
              \/ /\ pc = "scan"
                 /\ p \in PredictedNow
                 /\ IsLexicalEdge(chart[p])
                 /\ chart'[p] = [chart[p] EXCEPT !.rule.dot = 1,
                                                 !.span = <<@[1], @[2] + 1>>]
      ]_vars

\* e advanced by scan: dot + 1 and span.end + 1, the rest unchanged
Advanced(e) == [e EXCEPT !.rule.dot = @ + 1, !.span = <<@[1], @[2] + 1>>]

\* what scan() does besides advancing edges: the edges it advanced are the
\* worklist it returns, in chart order; one more token is consumed;
\* complete_start is the length of the chart; no edge is appended
ScanBookkeeping ==
    /\ completed_edges' = SelectSeq(Positions(0, Len(chart)),
                                    LAMBDA p : chart'[p] # chart[p])
    /\ sentence_progress' = sentence_progress + 1
    /\ complete_start' = Len(chart)
    /\ Len(chart') = Len(chart)

\* C14: scan() advances dot by one and span.end by one, in place, on every
\* edge currently in the chart whose left-hand symbol is a lexical category,
\* returns exactly those edges as the worklist for complete, increments the
\* consumed-token counter by exactly one, sets stage_boundary to the current
\* chart length, and appends no edge.
C14_ScanAdvancesAllLexical ==
    [][pc = "scan" =>
          /\ \A p \in 1..Len(chart) :
                 chart'[p] = IF chart[p].rule.lhs \in DOMAIN lexicon
                             THEN Advanced(chart[p]) ELSE chart[p]
          /\ ScanBookkeeping
      ]_vars

\* C14, amended: scan() advances, in place, every edge at or after
\* stage_boundary (chart[complete_start:]) whose left-hand symbol is a key of
\* the lexicon table, and no other edge; the rest as stated.
C14_ScanAdvancesWindow ==
    [][pc = "scan" =>
          /\ \A p \in 1..Len(chart) :
                 chart'[p] = IF /\ p > complete_start
                                /\ chart[p].rule.lhs \in DOMAIN lexicon
                             THEN Advanced(chart[p]) ELSE chart[p]
          /\ ScanBookkeeping
      ]_vars

\* scan() has just returned in a later stage: the worklist holds an edge it
\* advanced, and an edge of a lexical category scanned in an earlier stage,
\* before the window, is as it was
C14_Witness ==
    /\ pc = "complete"
    /\ complete_start = Len(chart)
    /\ sentence_progress >= 2
    /\ \E n \in 1..Len(completed_edges) :
           chart[completed_edges[n]].span[2] = sentence_progress
    /\ \E p \in 1..Len(chart) :
           /\ chart[p].rule.lhs \in DOMAIN lexicon
           /\ chart[p].rule.dot = 1
           /\ chart[p].span[2] < sentence_progress

\* C15: edge ids are unique and assigned in strict creation order: in every
\* reachable state the edge at chart position i has id i (positions and ids
\* counted from 0), so id order is chart order and a topological order of the
\* history-reference graph: no history contains the edge's own id or a later
\* one.
C15_IdsInCreationOrder ==
    /\ edge_id = Len(chart)
    /\ \A p \in 1..Len(chart) :
           /\ chart[p].id = p - 1
           /\ \A n \in 1..Len(chart[p].history) :
                  /\ chart[p].history[n] >= 0
                  /\ chart[p].history[n] < chart[p].id

\* an edge made by complete from an edge made by complete: a chain of
\* references two deep, among edges of predict and complete
C15_Witness ==
    \E p \in 1..Len(chart) :
        /\ Len(chart[p].history) = 2
        /\ chart[p].id = p - 1
        /\ \E n \in 1..2 :
               EdgeOfId(chart, chart[p].history[n]).history # << >>

\* position p is on predict's worklist q
OnQueue(q, p) == \E n \in 1..Len(q) : q[n] = p

\* C16: every edge created by predict() in stage k has dot 0, empty history
\* and the empty span (k, k), k the number of tokens consumed so far; every
\* lexical edge B -> w it creates has w = tokens[k], the next unconsumed
\* token, and w an accepted word of B; lexical edges are never pushed onto
\* the predict worklist, predicted nonterminal edges are.
C16_PredictedEdges ==
    [][pc = "predict" =>
          /\ \A p \in (Len(chart) + 1)..Len(chart') :
                 LET e == chart'[p] IN
                 /\ e.rule.dot = 0
                 /\ e.history = << >>
                 /\ e.span = <<sentence_progress, sentence_progress>>
                 /\ IF e.rule.lhs \in DOMAIN syntax
                    THEN OnQueue(edge_queue', p)
                    ELSE /\ e.rule.rhs = <<sentence[sentence_progress + 1]>>
                         /\ IsLexicalEdge(e)
                         /\ ~OnQueue(edge_queue', p)
          /\ \A n \in 1..Len(edge_queue') :
                 ~IsLexicalEdge(chart'[edge_queue'[n]])
      ]_vars

\* predict has returned in a later stage: it made a lexical edge for the next
\* token, of a category expected by a nonterminal edge it predicted itself
C16_Witness ==
    /\ pc = "scan"
    /\ sentence_progress >= 1
    /\ \E p, q \in PredictedNow :
           /\ IsLexicalEdge(chart[p])
           /\ chart[p].rule.rhs = <<sentence[sentence_progress + 1]>>
           /\ chart[p].span = <<sentence_progress, sentence_progress>>
           /\ ~IsLexicalEdge(chart[q])
           /\ Len(chart[q].rule.rhs) > 0
           /\ chart[q].rule.rhs[1] = chart[p].rule.lhs

\* the spans of the edges named in e's history tile e's span in order, and the
\* n-th of them is an edge of e's n-th rhs symbol
HistoryTiles(e) ==
    LET h(n) == EdgeOfId(chart, e.history[n])
        last == Len(e.history)
    IN  /\ h(1).span[1] = e.span[1]
        /\ \A n \in 2..last : h(n).span[1] = h(n - 1).span[2]
        /\ h(last).span[2] = e.span[2]
        /\ \A n \in 1..last :
               /\ n <= Len(e.rule.rhs)
               /\ h(n).rule.lhs = e.rule.rhs[n]

\* C17: in every reachable state, for every edge with a non-empty history the
\* spans of the edges named in its history tile its own span contiguously and
\* in order: the first history edge starts at the edge's start, each following
\* one starts where the previous one ends, the last one ends at the edge's
\* end, and the i-th history edge's lhs equals the edge's i-th rhs symbol.
C17_HistoryTilesSpan ==
    \A p \in 1..Len(chart) :
        chart[p].history # << >> => HistoryTiles(chart[p])

\* the chart holds the edge that completing pending edge P with complete edge
\* B gives
HasCompletion(P, B) ==
    \E r \in 1..Len(chart) :
        /\ chart[r].rule.lhs = P.rule.lhs
        /\ chart[r].rule.rhs = P.rule.rhs
        /\ chart[r].rule.dot = P.rule.dot + 1
        /\ chart[r].span = <<P.span[1], B.span[2]>>
        /\ chart[r].history = Append(P.history, B.id)

ClosedUnderCompletion ==
    \A b, p \in 1..Len(chart) :
        (/\ chart[b].rule.dot = Len(chart[b].rule.rhs)
         /\ Matches(chart[p], chart[b])) => HasCompletion(chart[p], chart[b])

\* C18: when complete() returns at the end of any stage, the chart is closed
\* under completion: for every complete edge B and every pending edge P of
\* the chart with P.span.end = B.span.start and the symbol after P's dot equal
\* to B's lhs, the chart contains an edge with P's lhs and rhs, dot =
\* P.dot + 1, span (P.span.start, B.span.end) and history P.history ++ [B.id].
C18_ClosedWhenCompleteReturns ==
    (pc = "run" /\ iterations > 0) => ClosedUnderCompletion

\* two different chart positions hold edges equal in all but the id
Duplicates(p, q) ==
    /\ p # q
    /\ chart[p].rule = chart[q].rule
    /\ chart[p].span = chart[q].span
    /\ chart[p].history = chart[q].history

\* C19: although complete() applies no deduplication, in every reachable
\* state no two distinct edges of the chart agree on all of (lhs, rhs, dot,
\* span, history), so no derivation is recorded or counted twice.
C19_NoDuplicateEdges ==
    \A p, q \in 1..Len(chart) : ~Duplicates(p, q)

====
